---- MODULE Spec2Model ----
(***************************************************************************)
(* The user and guard controllers of the guard management backend          *)
(* (backend/src/controllers/user.controller.js and guard.controller.js)    *)
(* as a state machine over the document collections they read and write.   *)
(*                                                                         *)
(* Spec      registration, login, logout and token refresh of users and    *)
(*           guards; every handler runs to completion before the next      *)
(*           request is taken.                                             *)
(* SpecGuard the guard administration handlers (work percent, approval),   *)
(*           one request at a time.                                        *)
(* SpecConc  two requests in flight at once, each handler split at the     *)
(*           database calls it awaits.                                     *)
(***************************************************************************)
EXTENDS Integers, FiniteSets, Sequences, TLC

VARIABLES
    users,       \* the User collection: a set of documents
    guards,      \* the Guard collection: a set of documents
    complains,   \* the Complain collection, in insertion order
    appreciations, \* the Appreciation collection, in insertion order
    locations,   \* the Location collection: a set of documents
    nextId,      \* the next ObjectId of an account document
    now,         \* the wall clock, in seconds (the unit of a JWT's iat)
    res,         \* the response to the request just handled
    latest,      \* history: account id -> refresh token last handed out
    superseded,  \* history: account id -> refresh tokens handed out before
    procs,       \* SpecConc: the requests in flight
    handled      \* the number of requests handled and seconds passed

vars ==
    <<users, guards, complains, appreciations, locations, nextId, now, res,
      latest, superseded, procs, handled>>

(***************************************************************************)
(* Bounds of the model.                                                    *)
(***************************************************************************)
MaxHandled == 5

Ids == 1..MaxHandled

(***************************************************************************)
(* Request values.  A string is a tuple of characters, so that             *)
(* toLowerCase is computed; the empty tuple is the empty or missing        *)
(* string, which the handlers do not tell apart (!userName).               *)
(***************************************************************************)
NoName == << >>
UserNames == { <<"b", "o">>, <<"B", "o">>, <<"a", "l">> }
NoString == ""
Emails == { "bo@x", "al@x" }
Passwords == { "pw1", "pw2" }

lowerChar(c) ==
    CASE c = "B" -> "b"
      [] c = "A" -> "a"
      [] c = "C" -> "c"
      [] OTHER -> c

\* String.prototype.toLowerCase
toLowerCase(s) == [i \in DOMAIN s |-> lowerChar(s[i])]

(***************************************************************************)
(* JSON web tokens.  A token is its secret and its payload: jwt.sign is    *)
(* deterministic, so two tokens signed for the same _id in the same        *)
(* second are the same string.                                             *)
(***************************************************************************)
NoToken == [secret |-> "none", _id |-> 0, iat |-> 0]
Cleared == [secret |-> "cleared", _id |-> 0, iat |-> 0]
Forged == [secret |-> "forged", _id |-> 1, iat |-> 0]

\* the generateAccessToken and generateRefreshToken methods of the models
generateAccessToken(doc, t) ==
    [secret |-> "ACCESS_TOKEN_SECRET", _id |-> doc._id, iat |-> t]

generateRefreshToken(doc, t) ==
    [secret |-> "REFRESH_TOKEN_SECRET", _id |-> doc._id, iat |-> t]

\* jwt.verify(token, process.env.REFRESH_TOKEN_SECRET) does not throw
jwtVerify(token) == token.secret = "REFRESH_TOKEN_SECRET"

\* the password as the models' pre-save hook stores it, and isPasswordCorrect
hash(password) == <<"bcrypt", password>>

isPasswordCorrect(doc, password) == doc.password = hash(password)

(***************************************************************************)
(* The database.  A query returns the set of documents it finds: empty     *)
(* for null, a singleton for one document.                                 *)
(***************************************************************************)
\* Model.findOne({ $or: [{ userName }, { email }] }): the first match in
\* insertion order
findOne(coll, userName, email) ==
    LET m == {d \in coll : d.userName = userName \/ d.email = email}
    IN  {d \in m : \A e \in m : d._id <= e._id}

\* Model.findById(id)
findById(coll, id) == {d \in coll : d._id = id}

\* the unique indexes on userName and email: an insert is refused (E11000)
\* when a stored document has either
DuplicateKey(coll, doc) ==
    \E d \in coll : d.userName = doc.userName \/ d.email = doc.email

\* document.save(), findByIdAndUpdate: the stored document is replaced
replaceDoc(coll, old, new) == (coll \ {old}) \cup {new}

(***************************************************************************)
(* Values of req.body.workPercent, and the comparisons JavaScript makes.   *)
(***************************************************************************)
Undefined == [t |-> "undefined", n |-> 0]
Null == [t |-> "null", n |-> 0]
Num(n) == [t |-> "number", n |-> n]
\* a string that is a numeral, and one that is not
NumStr(n) == [t |-> "numeral", n |-> n]
Text == [t |-> "text", n |-> 0]

WorkValues ==
    {Undefined, Null, Text, NumStr(50), Num(-1), Num(0), Num(50), Num(100),
     Num(101)}

\* ToNumber(v) is NaN
IsNaN(v) == v.t \in {"undefined", "text"}

\* ToNumber(v), when it is a number: null is 0
ToNumber(v) == IF v.t = "null" THEN 0 ELSE v.n

\* v < k and v > k: false when either side is NaN
LessThan(v, k) == ~IsNaN(v) /\ ToNumber(v) < k
GreaterThan(v, k) == ~IsNaN(v) /\ ToNumber(v) > k

\* Mongoose's cast of an update value to the Number path: null stays null,
\* a numeral becomes its number, any other string throws a CastError
CastFails(v) == v.t \in {"undefined", "text"}
CastNumber(v) == IF v.t = "numeral" THEN Num(v.n) ELSE v

(***************************************************************************)
(* Values of req.body.workHistory: missing, or a JSON text.                *)
(***************************************************************************)
\* JSON.parse(workHistory) does not throw and gives an array
IsArray(text) == text = "[]"

\* the parsed array; [] when the field is missing
JSONparse(text) == << >>

(***************************************************************************)
(* Requests.                                                               *)
(***************************************************************************)
\* the bodies of POST /register that pass every check of the handler
CompleteRequests ==
    [userName : UserNames, email : Emails, password : {"pw1"},
     fields : {TRUE}, avatar : {"uploaded"}, workHistory : {NoString}]

SampleRequest ==
    [userName |-> <<"B", "o">>, email |-> "bo@x", password |-> "pw1",
     fields |-> TRUE, avatar |-> "uploaded", workHistory |-> NoString]

\* one body for each check a registration can fail: a missing userName,
\* email, password or other required field (fields), no avatar file, an
\* avatar the media host refuses
FlawedRequests ==
    { [SampleRequest EXCEPT !.userName = NoName],
      [SampleRequest EXCEPT !.email = NoString],
      [SampleRequest EXCEPT !.password = NoString],
      [SampleRequest EXCEPT !.fields = FALSE],
      [SampleRequest EXCEPT !.avatar = "none"],
      [SampleRequest EXCEPT !.avatar = "failed"] }

\* a guard's registration may carry a workHistory: an array, a JSON text
\* that is no array, a text that is no JSON
WorkHistoryRequests ==
    { [SampleRequest EXCEPT !.workHistory = w] : w \in {"[]", "{}", "["} }

UserRequests == CompleteRequests \cup FlawedRequests
GuardRequests == CompleteRequests \cup FlawedRequests \cup WorkHistoryRequests

\* the bodies of POST /login
LoginRequests ==
    [userName : UserNames \cup {NoName}, email : Emails \cup {NoString},
     password : Passwords]

(***************************************************************************)
(* Responses: what the client is sent.                                     *)
(***************************************************************************)
NoCookies == [accessToken |-> NoToken, refreshToken |-> NoToken]

\* an ApiError through the global error handler, or an ApiResponse that
\* carries no tokens; id is the _id of the document in the response
Respond(op, status, id) ==
    [op |-> op, status |-> status, id |-> id, incoming |-> NoToken,
     accessToken |-> NoToken, refreshToken |-> NoToken,
     cookies |-> NoCookies, uploaded |-> FALSE, userName |-> NoName,
     data |-> {}]

\* the same, after uploadOnCloudinary has been called
RespondUploaded(op, status, id) ==
    [Respond(op, status, id) EXCEPT !.uploaded = TRUE]

\* a faulty variant of RespondTokens: the tokens are in the body only
RespondTokensInBody(op, id, at, rt) ==
    [Respond(op, 200, id) EXCEPT !.accessToken = at, !.refreshToken = rt]

\* res.cookie("refreshToken", ...).cookie("accessToken", ...).status(200)
\*    .json({ accessToken, refreshToken })
RespondTokens(op, id, at, rt) ==
    [Respond(op, 200, id) EXCEPT
        !.accessToken = at, !.refreshToken = rt,
        !.cookies = [accessToken |-> at, refreshToken |-> rt]]

\* res.clearCookie("accessToken").clearCookie("refreshToken").status(200)
RespondCleared(op, id) ==
    [Respond(op, 200, id) EXCEPT
        !.cookies = [accessToken |-> Cleared, refreshToken |-> Cleared]]

\* the answer to a refresh request records the token that was presented
Presented(response, incoming) == [response EXCEPT !.incoming = incoming]

\* .select("-password -refreshToken"), $project: { password: 0, ... }: the
\* document without the fields named
select(doc, fields) == [f \in DOMAIN doc \ fields |-> doc[f]]

Credentials == {"password", "refreshToken"}

\* a query without .select(): the fields the schema does not hide
schemaSelect(doc) == select(doc, Credentials)

\* the response carries the documents data in its body
SendData(response, data) == [response EXCEPT !.data = data]

\* the answer to a registration records the userName that was sent
Sent(response, userName) == [response EXCEPT !.userName = userName]

NoResponse == Respond("none", 0, 0)

Init ==
    /\ users = {}
    /\ guards = {}
    /\ complains = << >>
    /\ appreciations = << >>
    /\ locations = {}
    /\ nextId = 1
    /\ now = 0
    /\ res = NoResponse
    /\ latest = [i \in Ids |-> NoToken]
    /\ superseded = [i \in Ids |-> {}]
    /\ procs = << >>
    /\ handled = 0

\* one more request is handled, or one more second passes
Count ==
    /\ handled < MaxHandled
    /\ handled' = handled + 1

\* a second passes between two requests
Tick ==
    /\ Count
    /\ now' = now + 1
    /\ res' = NoResponse
    /\ UNCHANGED <<users, guards, complains, appreciations, locations, nextId, latest, superseded, procs>>

(***************************************************************************)
(* History of the refresh tokens handed to clients (not program state).    *)
(***************************************************************************)
Issue(id, rt) ==
    /\ latest' = [latest EXCEPT ![id] = rt]
    /\ superseded' = [superseded EXCEPT ![id] = @ \cup ({latest[id]} \ {NoToken})]

Revoke(id) ==
    /\ latest' = [latest EXCEPT ![id] = NoToken]
    /\ superseded' = [superseded EXCEPT ![id] = @ \cup ({latest[id]} \ {NoToken})]

\* every refresh token some client has been handed
Issued == UNION {superseded[i] \cup ({latest[i]} \ {NoToken}) : i \in Ids}

\* what a client can send as a refresh token: nothing, a token it made up,
\* or a token it was handed
Presentable == {NoToken, Forged} \cup Issued

\* the account has been handed an access token: verifyJWT lets it through
Authenticated(id) == latest[id] # NoToken \/ superseded[id] # {}

\* req.cookies?.refreshToken || req.body.refreshToken
incomingRefreshToken(cookie, body) == IF cookie # NoToken THEN cookie ELSE body

\* catch (error) { throw new ApiError(401, "Invalid refresh token") }
catchRefresh(thrown) == 401

(***************************************************************************)
(* user.controller.js: accounts of users                          *)
(***************************************************************************)
\* the token pair, and the collection after user.save()
generateAccessAndRefreshTokensUser(userId, t) ==
    LET user == CHOOSE d \in findById(users, userId) : TRUE
        refreshToken == generateRefreshToken(user, t)
    IN  [accessToken |-> generateAccessToken(user, t),
         refreshToken |-> refreshToken,
         saved |-> replaceDoc(users, user,
                              [user EXCEPT !.refreshToken = refreshToken])]

\* a faulty variant of newUser: the users are numbered on their own, so a
\* user and a guard can have the same _id
newUserOwnIds(r) ==
    [_id |-> Cardinality(users) + 1, userName |-> toLowerCase(r.userName),
     email |-> r.email, password |-> hash(r.password), refreshToken |-> NoToken]

\* a faulty variant of newUser: the userName is stored as it was sent
newUserAsSent(r) ==
    [_id |-> nextId, userName |-> r.userName, email |-> r.email,
     password |-> hash(r.password), refreshToken |-> NoToken]

\* the document User.create stores for the request body r
newUser(r) ==
    [_id |-> nextId, userName |-> toLowerCase(r.userName), email |-> r.email,
     password |-> hash(r.password), refreshToken |-> NoToken]

registerUser(r) ==
    /\ Count
    /\ UNCHANGED <<guards, complains, appreciations, locations, now, latest, superseded, procs>>
    /\ IF r.userName = NoName \/ ~r.fields \/ r.email = NoString
          \/ r.password = NoString
       THEN /\ res' = Respond("registerUser", 400, 0)
            /\ UNCHANGED <<users, nextId>>
       ELSE IF findOne(users, r.userName, r.email) # {}
       THEN /\ res' = Respond("registerUser", 409, 0)
            /\ UNCHANGED <<users, nextId>>
       ELSE IF r.avatar = "none"
       THEN /\ res' = Respond("registerUser", 400, 0)
            /\ UNCHANGED <<users, nextId>>
       ELSE IF r.avatar = "failed"
       THEN /\ res' = RespondUploaded("registerUser", 500, 0)
            /\ UNCHANGED <<users, nextId>>
       ELSE LET user == newUser(r)
         IN  IF DuplicateKey(users, user)
             THEN /\ res' = RespondUploaded("registerUser", 500, 0)
                  /\ UNCHANGED <<users, nextId>>
             ELSE /\ users' = users \cup {user}
                  /\ nextId' = nextId + 1
                  /\ res' = SendData(Sent(RespondUploaded("registerUser", 201,
                                                user._id), r.userName),
                                      {select(user, Credentials)})

\* a faulty variant of checkLoginUser: the password is not compared
checkLoginUserAnyPassword(r) ==
    IF r.email = NoString /\ r.userName = NoName THEN 400
    ELSE IF findOne(users, r.userName, r.email) = {} THEN 404
    ELSE 200

\* the status the checks of loginUser give the body r: 200 when it names an
\* account and gives its password
checkLoginUser(r) ==
    LET found == findOne(users, r.userName, r.email)
    IN  IF r.email = NoString /\ r.userName = NoName THEN 400
        ELSE IF found = {} THEN 404
        ELSE IF \E user \in found : ~isPasswordCorrect(user, r.password) THEN 401
        ELSE 200

loginUser(r) ==
    LET status == checkLoginUser(r)
        user == CHOOSE d \in findOne(users, r.userName, r.email) : TRUE
        tokens == generateAccessAndRefreshTokensUser(user._id, now)
    IN  /\ Count
        /\ UNCHANGED <<guards, complains, appreciations, locations, nextId, now, procs>>
        /\ IF status # 200
           THEN /\ res' = Respond("loginUser", status, 0)
                /\ UNCHANGED <<users, latest, superseded>>
           ELSE /\ users' = tokens.saved
                /\ res' = SendData(RespondTokens("loginUser", user._id,
                                  tokens.accessToken, tokens.refreshToken),
                              {user})
                /\ Issue(user._id, tokens.refreshToken)

\* a faulty variant of unsetRefreshTokenUser: the stored token is kept
keepRefreshTokenUser(id) == users

\* the collection after findByIdAndUpdate(id, { $unset: { refreshToken: 1 } })
unsetRefreshTokenUser(id) ==
    {IF d._id = id THEN [d EXCEPT !.refreshToken = NoToken] ELSE d : d \in users}

\* req.user is the account the auth middleware found for the access token
logoutUser(id) ==
    /\ Count
    /\ findById(users, id) # {}
    /\ Authenticated(id)
    /\ users' = unsetRefreshTokenUser(id)
    /\ res' = RespondCleared("logoutUser", id)
    /\ Revoke(id)
    /\ UNCHANGED <<guards, complains, appreciations, locations, nextId, now, procs>>

\* what the try block of getAccessToken ends with: 200, or the status of
\* the error it throws (498 stands for the JsonWebTokenError of jwt.verify)
tryRefreshUser(incoming) ==
    IF ~jwtVerify(incoming)
    THEN 498
    ELSE LET user == findById(users, incoming._id)
         IN  IF user = {} \/ \E d \in user : incoming # d.refreshToken
             THEN 403
             ELSE 200

getAccessTokenUser(cookie, body) ==
    LET incoming == incomingRefreshToken(cookie, body)
        tried == tryRefreshUser(incoming)
        tokens == generateAccessAndRefreshTokensUser(incoming._id, now)
    IN  /\ Count
        /\ UNCHANGED <<guards, complains, appreciations, locations, nextId, now, procs>>
        /\ IF incoming = NoToken
           THEN /\ res' = Respond("getAccessTokenUser", 401, 0)
                /\ UNCHANGED <<users, latest, superseded>>
           ELSE IF tried # 200
           THEN /\ res' = Presented(Respond("getAccessTokenUser",
                                            catchRefresh(tried), 0), incoming)
                /\ UNCHANGED <<users, latest, superseded>>
           ELSE /\ users' = tokens.saved
                /\ res' = Presented(RespondTokens("getAccessTokenUser",
                                        incoming._id, tokens.accessToken,
                                        tokens.refreshToken), incoming)
                /\ Issue(incoming._id, tokens.refreshToken)

(***************************************************************************)
(* guard.controller.js: accounts of guards                         *)
(***************************************************************************)
\* the token pair, and the collection after guard.save()
generateAccessAndRefreshTokensGuard(guardId, t) ==
    LET guard == CHOOSE d \in findById(guards, guardId) : TRUE
        refreshToken == generateRefreshToken(guard, t)
    IN  [accessToken |-> generateAccessToken(guard, t),
         refreshToken |-> refreshToken,
         saved |-> replaceDoc(guards, guard,
                              [guard EXCEPT !.refreshToken = refreshToken])]

\* the document Guard.create stores for the request body r
newGuard(r) ==
    [_id |-> nextId, userName |-> toLowerCase(r.userName), email |-> r.email,
     password |-> hash(r.password), refreshToken |-> NoToken,
     isApproved |-> FALSE, workPercent |-> Num(0),
     workHistory |-> JSONparse(r.workHistory)]

registerGuard(r) ==
    /\ Count
    /\ UNCHANGED <<users, complains, appreciations, locations, now, latest, superseded, procs>>
    /\ IF r.userName = NoName \/ ~r.fields \/ r.email = NoString
          \/ r.password = NoString
       THEN /\ res' = Respond("registerGuard", 400, 0)
            /\ UNCHANGED <<guards, nextId>>
       ELSE IF findOne(guards, r.userName, r.email) # {}
       THEN /\ res' = Respond("registerGuard", 409, 0)
            /\ UNCHANGED <<guards, nextId>>
       ELSE IF r.avatar = "none"
       THEN /\ res' = Respond("registerGuard", 400, 0)
            /\ UNCHANGED <<guards, nextId>>
       ELSE IF r.avatar = "failed"
       THEN /\ res' = RespondUploaded("registerGuard", 500, 0)
            /\ UNCHANGED <<guards, nextId>>
       ELSE IF r.workHistory # NoString /\ ~IsArray(r.workHistory)
         THEN /\ res' = RespondUploaded("registerGuard", 400, 0)
              /\ UNCHANGED <<guards, nextId>>
         ELSE LET guard == newGuard(r)
              IN  IF DuplicateKey(guards, guard)
                  THEN /\ res' = RespondUploaded("registerGuard", 500, 0)
                       /\ UNCHANGED <<guards, nextId>>
                  ELSE /\ guards' = guards \cup {guard}
                       /\ nextId' = nextId + 1
                       /\ res' = SendData(Sent(RespondUploaded("registerGuard",
                                                201, guard._id), r.userName),
                                           {select(guard, Credentials)})

\* the status the checks of loginGuard give the body r: 200 when it names an
\* account and gives its password
checkLoginGuard(r) ==
    LET found == findOne(guards, r.userName, r.email)
    IN  IF r.email = NoString /\ r.userName = NoName THEN 400
        ELSE IF found = {} THEN 404
        ELSE IF \E guard \in found : ~isPasswordCorrect(guard, r.password) THEN 401
        ELSE 200

loginGuard(r) ==
    LET status == checkLoginGuard(r)
        guard == CHOOSE d \in findOne(guards, r.userName, r.email) : TRUE
        tokens == generateAccessAndRefreshTokensGuard(guard._id, now)
    IN  /\ Count
        /\ UNCHANGED <<users, complains, appreciations, locations, nextId, now, procs>>
        /\ IF status # 200
           THEN /\ res' = Respond("loginGuard", status, 0)
                /\ UNCHANGED <<guards, latest, superseded>>
           ELSE /\ guards' = tokens.saved
                /\ res' = SendData(RespondTokens("loginGuard", guard._id,
                                  tokens.accessToken, tokens.refreshToken),
                              {guard})
                /\ Issue(guard._id, tokens.refreshToken)

\* the collection after findByIdAndUpdate(id, { $unset: { refreshToken: 1 } })
unsetRefreshTokenGuard(id) ==
    {IF d._id = id THEN [d EXCEPT !.refreshToken = NoToken] ELSE d : d \in guards}

\* req.user is the account the auth middleware found for the access token
logoutGuard(id) ==
    /\ Count
    /\ findById(guards, id) # {}
    /\ Authenticated(id)
    /\ guards' = unsetRefreshTokenGuard(id)
    /\ res' = RespondCleared("logoutGuard", id)
    /\ Revoke(id)
    /\ UNCHANGED <<users, complains, appreciations, locations, nextId, now, procs>>

\* what the try block of getAccessToken ends with: 200, or the status of
\* the error it throws (498 stands for the JsonWebTokenError of jwt.verify)
tryRefreshGuard(incoming) ==
    IF ~jwtVerify(incoming)
    THEN 498
    ELSE LET guard == findById(guards, incoming._id)
         IN  IF guard = {} \/ \E d \in guard : incoming # d.refreshToken
             THEN 403
             ELSE 200

getAccessTokenGuard(cookie, body) ==
    LET incoming == incomingRefreshToken(cookie, body)
        tried == tryRefreshGuard(incoming)
        tokens == generateAccessAndRefreshTokensGuard(incoming._id, now)
    IN  /\ Count
        /\ UNCHANGED <<users, complains, appreciations, locations, nextId, now, procs>>
        /\ IF incoming = NoToken
           THEN /\ res' = Respond("getAccessTokenGuard", 401, 0)
                /\ UNCHANGED <<guards, latest, superseded>>
           ELSE IF tried # 200
           THEN /\ res' = Presented(Respond("getAccessTokenGuard",
                                            catchRefresh(tried), 0), incoming)
                /\ UNCHANGED <<guards, latest, superseded>>
           ELSE /\ guards' = tokens.saved
                /\ res' = Presented(RespondTokens("getAccessTokenGuard",
                                        incoming._id, tokens.accessToken,
                                        tokens.refreshToken), incoming)
                /\ Issue(incoming._id, tokens.refreshToken)

(***************************************************************************)
(* guard.controller.js and user.controller.js: administration of guards    *)
(***************************************************************************)
\* the collection after Guard.findByIdAndUpdate(guardId, { workPercent })
setWorkPercent(guardId, workPercent) ==
    {IF d._id = guardId THEN [d EXCEPT !.workPercent = CastNumber(workPercent)]
                        ELSE d : d \in guards}

\* user is req.user?._id, 0 when the request carries no account
updateWorkPercent(user, workPercent) ==
    /\ Count
    /\ user # 0 => findById(guards, user) # {} /\ Authenticated(user)
    /\ UNCHANGED <<users, complains, appreciations, locations, nextId, now, latest, superseded, procs>>
    /\ IF user = 0
       THEN /\ res' = Respond("updateWorkPercent", 404, 0)
            /\ UNCHANGED guards
       ELSE IF workPercent = Undefined \/ LessThan(workPercent, 0)
               \/ GreaterThan(workPercent, 100)
       THEN /\ res' = Respond("updateWorkPercent", 400, 0)
            /\ UNCHANGED guards
       ELSE IF CastFails(workPercent)
       THEN /\ res' = Respond("updateWorkPercent", 500, 0)
            /\ UNCHANGED guards
       ELSE /\ guards' = setWorkPercent(user, workPercent)
            /\ res' = SendData(Respond("updateWorkPercent", 200, user),
                    {select(d, Credentials)
                        : d \in findById(setWorkPercent(user, workPercent), user)})

\* mongoose.isValidObjectId(guardId): the ids are the positive numbers
isValidObjectId(guardId) == guardId > 0

\* new mongoose.Types.ObjectId(): an id no document has
FreshObjectId == nextId

\* a faulty variant of disapprove: every guard loses its approval
disapproveAll(guardId) ==
    {[d EXCEPT !.isApproved = FALSE] : d \in guards}

\* the collection after guard.isApproved = false; guard.save()
disapprove(guardId) ==
    {IF d._id = guardId THEN [d EXCEPT !.isApproved = FALSE] ELSE d : d \in guards}

\* complain tells whether req.body.complain is a non-empty text; guardId
\* is req.params.guardId, 0 when missing and -1 when no ObjectId
authoriseGuard(complain, guardId) ==
    LET id == IF isValidObjectId(guardId) THEN guardId ELSE FreshObjectId
    IN  /\ Count
        /\ UNCHANGED <<users, appreciations, locations, nextId, now, latest,
                       superseded, procs>>
        /\ IF ~complain
           THEN /\ res' = Respond("authoriseGuard", 400, 0)
                /\ UNCHANGED <<guards, complains>>
           ELSE IF guardId = 0
           THEN /\ res' = Respond("authoriseGuard", 400, 0)
                /\ UNCHANGED <<guards, complains>>
           ELSE IF findById(guards, id) = {}
           THEN /\ res' = Respond("authoriseGuard", 404, 0)
                /\ UNCHANGED <<guards, complains>>
           ELSE /\ guards' = disapprove(id)
                /\ complains' = Append(complains, [guard |-> id])
                /\ res' = SendData(Respond("authoriseGuard", 200, id),
                        {schemaSelect(d) : d \in findById(disapprove(id), id)})

\* the administrator approves a guard
approveGuard(guardId) ==
    /\ Count
    /\ findById(guards, guardId) # {}
    /\ guards' = {IF d._id = guardId THEN [d EXCEPT !.isApproved = TRUE] ELSE d
                    : d \in guards}
    /\ res' = Respond("approveGuard", 200, guardId)
    /\ UNCHANGED <<users, complains, appreciations, locations, nextId, now, latest, superseded, procs>>

(***************************************************************************)
(* user.controller.js and guard.controller.js: appreciations, lookups by   *)
(* userName, and the lists of guards.                                      *)
(***************************************************************************)
\* a faulty variant of createAppreciation: the document is inserted twice
createAppreciationTwice(guardId) ==
    appreciations \o <<[guard |-> guardId], [guard |-> guardId]>>

\* the collection after Appreciation.create({ message, guard: guardId })
createAppreciation(guardId) == Append(appreciations, [guard |-> guardId])

\* Guard.findById(guardId) throws a CastError when guardId is no ObjectId
CastsToObjectId(guardId) == isValidObjectId(guardId)

\* user is req.user?._id, 0 when the request carries no account; message
\* tells whether req.body.message is a non-empty text; guardId is
\* req.params.guardId, 0 when missing and -1 when no ObjectId
appreciateGuard(user, message, guardId) ==
    /\ Count
    /\ IF user = 0 \/ ~message \/ findById(users, user) = {} \/ guardId = 0
       THEN /\ res' = Respond("appreciateGuard", 400, 0)
            /\ UNCHANGED appreciations
       ELSE IF ~CastsToObjectId(guardId)
       THEN /\ res' = Respond("appreciateGuard", 500, 0)
            /\ UNCHANGED appreciations
       ELSE IF findById(guards, guardId) = {}
       THEN /\ res' = Respond("appreciateGuard", 404, 0)
            /\ UNCHANGED appreciations
       ELSE /\ appreciations' = createAppreciation(guardId)
            /\ res' = Respond("appreciateGuard", 200, guardId)
    /\ UNCHANGED <<users, guards, complains, locations, nextId, now, latest,
                   superseded, procs>>

\* User.findOne({ userName: userName.trim() }).select("-password -refreshToken")
getUser(userName) ==
    LET user == findOne(users, userName, NoString)
    IN  /\ Count
        /\ UNCHANGED <<users, guards, complains, appreciations, locations,
                       nextId, now, latest, superseded, procs>>
        /\ res' = IF userName = NoName THEN Respond("getUser", 400, 0)
                  ELSE IF user = {} THEN Respond("getUser", 404, 0)
                  ELSE SendData(Respond("getUser", 200, 0),
                                {select(d, Credentials) : d \in user})

getGuard(userName) ==
    LET guard == findOne(guards, userName, NoString)
    IN  /\ Count
        /\ UNCHANGED <<users, guards, complains, appreciations, locations,
                       nextId, now, latest, superseded, procs>>
        /\ res' = IF userName = NoName THEN Respond("getGuard", 400, 0)
                  ELSE IF guard = {} THEN Respond("getGuard", 404, 0)
                  ELSE SendData(Respond("getGuard", 200, 0),
                                {select(d, Credentials) : d \in guard})

\* a Location is created for the account guardId (the location controller)
assignLocation(guardId) ==
    /\ Count
    /\ findById(guards \cup users, guardId) # {}
    /\ locations' = locations \cup {[_id |-> nextId, guard |-> guardId]}
    /\ nextId' = nextId + 1
    /\ res' = Respond("assignLocation", 201, nextId)
    /\ UNCHANGED <<users, guards, complains, appreciations, now, latest,
                   superseded, procs>>

\* a list handler answers 404 when its result is empty
RespondList(op, data) ==
    IF data = {} THEN Respond(op, 404, 0) ELSE SendData(Respond(op, 200, 0), data)

\* Guard.find({ isApproved: true }).select("-password -refreshToken")
findApproved ==
    {select(g, Credentials) : g \in {d \in guards : d.isApproved}}

listAutherisedGuards ==
    /\ Count
    /\ res' = RespondList("listAutherisedGuards", findApproved)
    /\ UNCHANGED <<users, guards, complains, appreciations, locations, nextId,
                   now, latest, superseded, procs>>

\* $lookup: the documents of from whose foreignField is the localField of doc
lookup(from, localValue, foreignField) ==
    {d \in from : d[foreignField] = localValue}

\* a faulty variant of aggregateUnassigned: the $match of isApproved that
\* the handler has commented out is applied
aggregateUnassignedApproved ==
    {select(g, Credentials) :
        g \in {d \in guards :
                 d.isApproved /\ lookup(locations, d._id, "guard") = {}}}

\* Guard.aggregate: $lookup of the locations of each guard, $match of the
\* guards that have none, $project
aggregateUnassigned ==
    {select(g, Credentials) :
        g \in {d \in guards : lookup(locations, d._id, "guard") = {}}}

listUnassignedGuards ==
    /\ Count
    /\ res' = RespondList("listUnassignedGuards", aggregateUnassigned)
    /\ UNCHANGED <<users, guards, complains, appreciations, locations, nextId,
                   now, latest, superseded, procs>>

\* a faulty variant of aggregateAuthorised: the $match of isApproved is
\* left out
aggregateAssignedAny ==
    UNION {{[_id |-> l._id, guard |-> l.guard,
             guardDetails |-> select(g, Credentials)]
                : g \in lookup(guards, l.guard, "_id")}
            : l \in locations}

\* Location.aggregate: $lookup of the guard of each location, $unwind (one
\* entry per guard found, none when there is none), $match of the approved
\* guards, $project
aggregateAuthorised ==
    UNION {{[_id |-> l._id, guard |-> l.guard,
             guardDetails |-> select(g, Credentials)]
                : g \in {d \in lookup(guards, l.guard, "_id") : d.isApproved}}
            : l \in locations}

listAuthorisedGuards ==
    /\ Count
    /\ res' = RespondList("listAuthorisedGuards", aggregateAuthorised)
    /\ UNCHANGED <<users, guards, complains, appreciations, locations, nextId,
                   now, latest, superseded, procs>>

\* the ids a request can name: those of the stored documents, and an
\* ObjectId that no document has
SomeIds(coll) == {d._id : d \in coll} \cup {FreshObjectId}

\* the requests of the administration of guards: one user, the guards, and
\* what is asked about them
NextAdmin ==
    \/ registerUser(SampleRequest)
    \/ \E r \in CompleteRequests : registerGuard(r)
    \/ \E id \in Ids : approveGuard(id)
    \/ \E complain \in BOOLEAN, id \in Ids \cup {0, -1} :
            authoriseGuard(complain, id)
    \/ \E user \in SomeIds(users) \cup {0}, message \in BOOLEAN,
          id \in SomeIds(guards) \cup {0, -1} :
            appreciateGuard(user, message, id)
    \/ \E id \in Ids : assignLocation(id)
    \/ \E userName \in UserNames \cup {NoName} : getUser(userName)
    \/ \E userName \in UserNames \cup {NoName} : getGuard(userName)
    \/ listAutherisedGuards
    \/ listUnassignedGuards
    \/ listAuthorisedGuards

SpecAdmin == Init /\ [][NextAdmin]_vars

(***************************************************************************)
(* Requests in flight.  A handler runs until its next await; between two   *)
(* awaits of one request the steps of other requests may run.  procs holds *)
(* the requests in their order of arrival: the handler (op), the await it  *)
(* is at (pc), what it has read so far, and its answer once pc is "done".  *)
(***************************************************************************)
\* the clients whose requests are in flight together
Clients == {"c1", "c2"}

NoRequest ==
    [userName |-> NoName, email |-> NoString, password |-> NoString,
     fields |-> FALSE, avatar |-> "none", workHistory |-> NoString]

\* a request that has arrived; after is the set of requests that had been
\* answered before it arrived (history, not program state)
Arrived(op, pc, r, incoming) ==
    [op |-> op, pc |-> pc, r |-> r, incoming |-> incoming, id |-> 0,
     status |-> 0, accessToken |-> NoToken, refreshToken |-> NoToken,
     after |-> {i \in DOMAIN procs : procs[i].pc = "done"}]

\* the request p moves on to the await pc
Await(p, pc) == procs' = [procs EXCEPT ![p].pc = pc]

\* the request p is answered with status
Answer(p, status) ==
    procs' = [procs EXCEPT ![p].pc = "done", ![p].status = status]

\* the request p is handled by op and is at the await pc
At(p, op, pc) == procs[p].op = op /\ procs[p].pc = pc

\* registerUser up to User.findOne
receiveRegisterUser(r) ==
    /\ Len(procs) < Cardinality(Clients)
    /\ procs' = Append(procs,
          IF r.userName = NoName \/ ~r.fields \/ r.email = NoString
             \/ r.password = NoString
          THEN [Arrived("registerUser", "done", r, NoToken) EXCEPT !.status = 400]
          ELSE Arrived("registerUser", "findOne", r, NoToken))
    /\ UNCHANGED <<users, guards, complains, appreciations, locations, nextId, now, res, latest,
                   superseded, handled>>

\* registerUser from the answer of User.findOne up to uploadOnCloudinary
registerUserFindOne(p) ==
    LET r == procs[p].r
    IN  /\ At(p, "registerUser", "findOne")
        /\ IF findOne(users, r.userName, r.email) # {} THEN Answer(p, 409)
           ELSE IF r.avatar = "none" THEN Answer(p, 400)
           ELSE Await(p, "upload")
        /\ UNCHANGED <<users, guards, complains, appreciations, locations, nextId, now, res, latest,
                       superseded, handled>>

\* registerUser from the answer of uploadOnCloudinary up to User.create
registerUserUpload(p) ==
    LET r == procs[p].r
    IN  /\ At(p, "registerUser", "upload")
        /\ IF r.avatar = "failed" THEN Answer(p, 500)
           ELSE Await(p, "create")
        /\ UNCHANGED <<users, guards, complains, appreciations, locations, nextId, now, res, latest,
                       superseded, handled>>

\* User.create: the unique indexes are checked as the document is inserted
registerUserCreate(p) ==
    LET user == newUser(procs[p].r)
    IN  /\ At(p, "registerUser", "create")
        /\ IF DuplicateKey(users, user)
           THEN /\ Answer(p, 500)
                /\ UNCHANGED <<users, nextId>>
           ELSE /\ users' = users \cup {user}
                /\ nextId' = nextId + 1
                /\ procs' = [procs EXCEPT ![p].pc = "findById",
                                          ![p].id = user._id]
        /\ UNCHANGED <<guards, complains, appreciations, locations, now, res, latest, superseded,
                       handled>>

\* registerUser from the answer of User.findById(user._id) to its response
registerUserRespond(p) ==
    /\ At(p, "registerUser", "findById")
    /\ Answer(p, IF findById(users, procs[p].id) = {} THEN 500 ELSE 201)
    /\ UNCHANGED <<users, guards, complains, appreciations, locations, nextId, now, res, latest,
                   superseded, handled>>

\* getAccessToken up to User.findById(decoded._id)
receiveRefreshUser(cookie, body) ==
    LET incoming == incomingRefreshToken(cookie, body)
    IN  /\ Len(procs) < Cardinality(Clients)
        /\ procs' = Append(procs,
              IF incoming = NoToken
              THEN [Arrived("getAccessTokenUser", "done", NoRequest, incoming)
                        EXCEPT !.status = 401]
              ELSE IF ~jwtVerify(incoming)
              THEN [Arrived("getAccessTokenUser", "done", NoRequest, incoming)
                        EXCEPT !.status = catchRefresh(498)]
              ELSE Arrived("getAccessTokenUser", "findById", NoRequest, incoming))
        /\ UNCHANGED <<users, guards, complains, appreciations, locations, nextId, now, res, latest,
                       superseded, handled>>

\* getAccessToken from the answer of User.findById(decoded._id), compared
\* with the incoming token, up to the findById of
\* generateAccessAndRefreshTokens
getAccessTokenUserCompare(p) ==
    LET tried == tryRefreshUser(procs[p].incoming)
    IN  /\ At(p, "getAccessTokenUser", "findById")
        /\ IF tried # 200
           THEN Answer(p, catchRefresh(tried))
           ELSE procs' = [procs EXCEPT ![p].pc = "generate",
                                       ![p].id = procs[p].incoming._id]
        /\ UNCHANGED <<users, guards, complains, appreciations, locations, nextId, now, res, latest,
                       superseded, handled>>

\* generateAccessAndRefreshTokens from the answer of its findById up to
\* user.save: the tokens are signed at this second
getAccessTokenUserGenerate(p) ==
    LET found == findById(users, procs[p].id)
        user == CHOOSE d \in found : TRUE
    IN  /\ At(p, "getAccessTokenUser", "generate")
        /\ IF found = {}
           THEN Answer(p, catchRefresh(404))
           ELSE procs' = [procs EXCEPT
                    ![p].pc = "save",
                    ![p].accessToken = generateAccessToken(user, now),
                    ![p].refreshToken = generateRefreshToken(user, now)]
        /\ UNCHANGED <<users, guards, complains, appreciations, locations, nextId, now, res, latest,
                       superseded, handled>>

\* the collection after user.save(): the modified path is written
saveRefreshTokenUser(id, refreshToken) ==
    {IF d._id = id THEN [d EXCEPT !.refreshToken = refreshToken] ELSE d
        : d \in users}

\* from the answer of user.save to the response of getAccessToken
getAccessTokenUserSave(p) ==
    /\ At(p, "getAccessTokenUser", "save")
    /\ users' = saveRefreshTokenUser(procs[p].id, procs[p].refreshToken)
    /\ Answer(p, 200)
    /\ Issue(procs[p].id, procs[p].refreshToken)
    /\ UNCHANGED <<guards, complains, appreciations, locations, nextId, now, res, handled>>

\* registerGuard up to Guard.findOne
receiveRegisterGuard(r) ==
    /\ Len(procs) < Cardinality(Clients)
    /\ procs' = Append(procs,
          IF r.userName = NoName \/ ~r.fields \/ r.email = NoString
             \/ r.password = NoString
          THEN [Arrived("registerGuard", "done", r, NoToken) EXCEPT !.status = 400]
          ELSE Arrived("registerGuard", "findOne", r, NoToken))
    /\ UNCHANGED <<users, guards, complains, appreciations, locations, nextId, now, res, latest,
                   superseded, handled>>

\* registerGuard from the answer of Guard.findOne up to uploadOnCloudinary
registerGuardFindOne(p) ==
    LET r == procs[p].r
    IN  /\ At(p, "registerGuard", "findOne")
        /\ IF findOne(guards, r.userName, r.email) # {} THEN Answer(p, 409)
           ELSE IF r.avatar = "none" THEN Answer(p, 400)
           ELSE Await(p, "upload")
        /\ UNCHANGED <<users, guards, complains, appreciations, locations, nextId, now, res, latest,
                       superseded, handled>>

\* registerGuard from the answer of uploadOnCloudinary up to Guard.create
registerGuardUpload(p) ==
    LET r == procs[p].r
    IN  /\ At(p, "registerGuard", "upload")
        /\ IF r.avatar = "failed" THEN Answer(p, 500)
           ELSE IF r.workHistory # NoString /\ ~IsArray(r.workHistory)
           THEN Answer(p, 400)
           ELSE Await(p, "create")
        /\ UNCHANGED <<users, guards, complains, appreciations, locations, nextId, now, res, latest,
                       superseded, handled>>

\* Guard.create: the unique indexes are checked as the document is inserted
registerGuardCreate(p) ==
    LET guard == newGuard(procs[p].r)
    IN  /\ At(p, "registerGuard", "create")
        /\ IF DuplicateKey(guards, guard)
           THEN /\ Answer(p, 500)
                /\ UNCHANGED <<guards, nextId>>
           ELSE /\ guards' = guards \cup {guard}
                /\ nextId' = nextId + 1
                /\ procs' = [procs EXCEPT ![p].pc = "findById",
                                          ![p].id = guard._id]
        /\ UNCHANGED <<users, complains, appreciations, locations, now, res, latest, superseded,
                       handled>>

\* registerGuard from the answer of Guard.findById(guard._id) to its response
registerGuardRespond(p) ==
    /\ At(p, "registerGuard", "findById")
    /\ Answer(p, IF findById(guards, procs[p].id) = {} THEN 500 ELSE 201)
    /\ UNCHANGED <<users, guards, complains, appreciations, locations, nextId, now, res, latest,
                   superseded, handled>>

\* getAccessToken up to Guard.findById(decoded._id)
receiveRefreshGuard(cookie, body) ==
    LET incoming == incomingRefreshToken(cookie, body)
    IN  /\ Len(procs) < Cardinality(Clients)
        /\ procs' = Append(procs,
              IF incoming = NoToken
              THEN [Arrived("getAccessTokenGuard", "done", NoRequest, incoming)
                        EXCEPT !.status = 401]
              ELSE IF ~jwtVerify(incoming)
              THEN [Arrived("getAccessTokenGuard", "done", NoRequest, incoming)
                        EXCEPT !.status = catchRefresh(498)]
              ELSE Arrived("getAccessTokenGuard", "findById", NoRequest, incoming))
        /\ UNCHANGED <<users, guards, complains, appreciations, locations, nextId, now, res, latest,
                       superseded, handled>>

\* getAccessToken from the answer of Guard.findById(decoded._id), compared
\* with the incoming token, up to the findById of
\* generateAccessAndRefreshTokens
getAccessTokenGuardCompare(p) ==
    LET tried == tryRefreshGuard(procs[p].incoming)
    IN  /\ At(p, "getAccessTokenGuard", "findById")
        /\ IF tried # 200
           THEN Answer(p, catchRefresh(tried))
           ELSE procs' = [procs EXCEPT ![p].pc = "generate",
                                       ![p].id = procs[p].incoming._id]
        /\ UNCHANGED <<users, guards, complains, appreciations, locations, nextId, now, res, latest,
                       superseded, handled>>

\* generateAccessAndRefreshTokens from the answer of its findById up to
\* guard.save: the tokens are signed at this second
getAccessTokenGuardGenerate(p) ==
    LET found == findById(guards, procs[p].id)
        guard == CHOOSE d \in found : TRUE
    IN  /\ At(p, "getAccessTokenGuard", "generate")
        /\ IF found = {}
           THEN Answer(p, catchRefresh(404))
           ELSE procs' = [procs EXCEPT
                    ![p].pc = "save",
                    ![p].accessToken = generateAccessToken(guard, now),
                    ![p].refreshToken = generateRefreshToken(guard, now)]
        /\ UNCHANGED <<users, guards, complains, appreciations, locations, nextId, now, res, latest,
                       superseded, handled>>

\* the collection after guard.save(): the modified path is written
saveRefreshTokenGuard(id, refreshToken) ==
    {IF d._id = id THEN [d EXCEPT !.refreshToken = refreshToken] ELSE d
        : d \in guards}

\* from the answer of guard.save to the response of getAccessToken
getAccessTokenGuardSave(p) ==
    /\ At(p, "getAccessTokenGuard", "save")
    /\ guards' = saveRefreshTokenGuard(procs[p].id, procs[p].refreshToken)
    /\ Answer(p, 200)
    /\ Issue(procs[p].id, procs[p].refreshToken)
    /\ UNCHANGED <<users, complains, appreciations, locations, nextId, now, res, handled>>

\* the registration of the account that is logged in when the requests
\* in flight arrive, and the body of its login
FirstRequest ==
    [SampleRequest EXCEPT !.userName = <<"C", "y">>, !.email = "cy@x"]

FirstLogin ==
    [userName |-> toLowerCase(FirstRequest.userName),
     email |-> FirstRequest.email, password |-> FirstRequest.password]

\* the account FirstRequest registers under _id, logged in at second 0
LoggedIn(_id) ==
    [_id |-> _id, userName |-> toLowerCase(FirstRequest.userName),
     email |-> FirstRequest.email, password |-> hash(FirstRequest.password),
     refreshToken |-> generateRefreshToken([_id |-> _id], 0)]

\* the state after registerUser(FirstRequest), loginUser(FirstLogin),
\* registerGuard(FirstRequest), loginGuard(FirstLogin), in that order
InitConc ==
    /\ users = {LoggedIn(1)}
    /\ guards = {[_id |-> 2, userName |-> LoggedIn(2).userName,
                  email |-> LoggedIn(2).email, password |-> LoggedIn(2).password,
                  refreshToken |-> LoggedIn(2).refreshToken,
                  isApproved |-> FALSE, workPercent |-> Num(0),
                  workHistory |-> JSONparse(NoString)]}
    /\ complains = << >>
    /\ appreciations = << >>
    /\ locations = {}
    /\ nextId = 3
    /\ now = 0
    /\ res = RespondTokens("loginGuard", 2, generateAccessToken([_id |-> 2], 0),
                           generateRefreshToken([_id |-> 2], 0))
    /\ latest = [i \in Ids |-> IF i \in {1, 2}
                               THEN generateRefreshToken([_id |-> i], 0)
                               ELSE NoToken]
    /\ superseded = [i \in Ids |-> {}]
    /\ procs = << >>
    /\ handled = 4

NextConc ==
    \/ Tick
    \/ \E r \in CompleteRequests : registerUser(r)
    \/ loginUser(FirstLogin)
    \/ \E r \in CompleteRequests : registerGuard(r)
    \/ loginGuard(FirstLogin)
    \/ \E r \in CompleteRequests : receiveRegisterUser(r)
    \/ \E p \in DOMAIN procs : registerUserFindOne(p)
    \/ \E p \in DOMAIN procs : registerUserUpload(p)
    \/ \E p \in DOMAIN procs : registerUserCreate(p)
    \/ \E p \in DOMAIN procs : registerUserRespond(p)
    \/ \E cookie \in Presentable : receiveRefreshUser(cookie, NoToken)
    \/ \E p \in DOMAIN procs : getAccessTokenUserCompare(p)
    \/ \E p \in DOMAIN procs : getAccessTokenUserGenerate(p)
    \/ \E p \in DOMAIN procs : getAccessTokenUserSave(p)
    \/ \E r \in CompleteRequests : receiveRegisterGuard(r)
    \/ \E p \in DOMAIN procs : registerGuardFindOne(p)
    \/ \E p \in DOMAIN procs : registerGuardUpload(p)
    \/ \E p \in DOMAIN procs : registerGuardCreate(p)
    \/ \E p \in DOMAIN procs : registerGuardRespond(p)
    \/ \E body \in Presentable : receiveRefreshGuard(NoToken, body)
    \/ \E p \in DOMAIN procs : getAccessTokenGuardCompare(p)
    \/ \E p \in DOMAIN procs : getAccessTokenGuardGenerate(p)
    \/ \E p \in DOMAIN procs : getAccessTokenGuardSave(p)

SpecConc == InitConc /\ [][NextConc]_vars

(***************************************************************************)
(* The requests a client makes.                                            *)
(***************************************************************************)
Next ==
    \/ Tick
    \/ \E r \in UserRequests : registerUser(r)
    \/ \E r \in LoginRequests : loginUser(r)
    \/ \E id \in Ids : logoutUser(id)
    \/ \E cookie, body \in Presentable : getAccessTokenUser(cookie, body)
    \/ \E r \in GuardRequests : registerGuard(r)
    \/ \E r \in LoginRequests : loginGuard(r)
    \/ \E id \in Ids : logoutGuard(id)
    \/ \E cookie, body \in Presentable : getAccessTokenGuard(cookie, body)

Spec == Init /\ [][Next]_vars

NextGuard ==
    \/ \E r \in GuardRequests : registerGuard(r)
    \/ \E r \in LoginRequests : loginGuard(r)
    \/ \E id \in Ids \cup {0}, w \in WorkValues : updateWorkPercent(id, w)
    \/ \E complain \in BOOLEAN, id \in Ids \cup {0, -1} :
            authoriseGuard(complain, id)
    \/ \E id \in Ids : approveGuard(id)

SpecGuard == Init /\ [][NextGuard]_vars

(***************************************************************************)
(* Vocabulary of the properties.                                           *)
(***************************************************************************)
\* the refresh token in the cookie and the one in the body of a request
RefreshRequests == Presentable \X Presentable

\* the stored documents a registration or login body names
Named(coll, r) ==
    {d \in coll : d.userName = toLowerCase(r.userName) \/ d.email = r.email}

\* the body carries every required field
HasAllFields(r) ==
    r.userName # NoName /\ r.email # NoString /\ r.password # NoString /\ r.fields

\* no two documents of the collection share a userName or an email
Unique(coll) ==
    \A d, e \in coll : d # e => d.userName # e.userName /\ d.email # e.email

\* the response carries no token and sets no cookie
NoTokens(response) ==
    /\ response.accessToken = NoToken
    /\ response.refreshToken = NoToken
    /\ response.cookies = NoCookies

\* the stored refresh token of the account id
Stored(coll, id) == {d.refreshToken : d \in findById(coll, id)}

LoginOps == {"loginUser", "loginGuard"}
RefreshOps == {"getAccessTokenUser", "getAccessTokenGuard"}

(***************************************************************************)
(* The step is the handling of a request of the kind op.  Every handler    *)
(* labels its response, so the properties below look at the handlers only  *)
(* in the steps that carry their label.                                    *)
(***************************************************************************)
Answers(ops) == res'.op \in ops

(***************************************************************************)
(* C1  Duplicate registration is rejected: a registration that carries     *)
(* every required field and whose userName (in any letter case) or email   *)
(* is that of a stored account of its kind is answered 409 and stores      *)
(* nothing, and no two stored accounts of a kind share a userName or an    *)
(* email.                                                                  *)
(***************************************************************************)
C1_DuplicateRejected ==
    [][/\ Answers({"registerUser"}) =>
            \A r \in UserRequests :
                (HasAllFields(r) /\ Named(users, r) # {} /\ registerUser(r))
                    => res'.status = 409 /\ users' = users
       /\ Answers({"registerGuard"}) =>
            \A r \in GuardRequests :
                (HasAllFields(r) /\ Named(guards, r) # {} /\ registerGuard(r))
                    => res'.status = 409 /\ guards' = guards
       /\ Unique(users')
       /\ Unique(guards')]_vars

(***************************************************************************)
(* C2  Wrong password is rejected: a login that names an existing account  *)
(* and gives a password that is not the password of an account it names    *)
(* is answered 401, is sent no token and no cookie, and changes no stored  *)
(* document.                                                               *)
(***************************************************************************)
WrongPassword(coll, r) ==
    LET named == {d \in coll : d.userName = r.userName \/ d.email = r.email}
    IN  named # {} /\ \A d \in named : d.password # hash(r.password)

Rejected401 ==
    /\ res'.status = 401
    /\ NoTokens(res')
    /\ users' = users
    /\ guards' = guards

C2_WrongPasswordRejected ==
    [][/\ Answers({"loginUser"}) =>
            \A r \in LoginRequests :
                (WrongPassword(users, r) /\ loginUser(r)) => Rejected401
       /\ Answers({"loginGuard"}) =>
            \A r \in LoginRequests :
                (WrongPassword(guards, r) /\ loginGuard(r)) => Rejected401]_vars

\* a login was answered 401 while the account it named held a refresh token
C2_Witness ==
    /\ res.op \in LoginOps
    /\ res.status = 401
    /\ \E d \in users \cup guards : d.refreshToken # NoToken

(***************************************************************************)
(* C3  Token refresh rotates cookies: a refresh request whose token        *)
(* verifies and is the one stored on the account is answered 200 with a    *)
(* pair of tokens signed for that account at that second, in the body and  *)
(* in both cookies, and afterwards the stored refresh token of the         *)
(* account is the refresh token the client was sent; no other document     *)
(* changes.                                                                *)
(***************************************************************************)
Rotated(coll, incoming) ==
    /\ res'.status = 200
    /\ res'.refreshToken =
          [secret |-> "REFRESH_TOKEN_SECRET", _id |-> incoming._id, iat |-> now]
    /\ res'.accessToken =
          [secret |-> "ACCESS_TOKEN_SECRET", _id |-> incoming._id, iat |-> now]
    /\ res'.cookies = [accessToken |-> res'.accessToken,
                       refreshToken |-> res'.refreshToken]
    /\ Stored(coll', incoming._id) = {res'.refreshToken}
    /\ \A d \in coll : d._id # incoming._id => d \in coll'
    /\ Cardinality(coll') = Cardinality(coll)

\* the token of the request q verifies and is the one stored on its account
Live(coll, q) ==
    LET incoming == incomingRefreshToken(q[1], q[2])
    IN  jwtVerify(incoming) /\ Stored(coll, incoming._id) = {incoming}

C3_RefreshRotates ==
    [][/\ Answers({"getAccessTokenUser"}) =>
            \A q \in RefreshRequests :
                (Live(users, q) /\ getAccessTokenUser(q[1], q[2]))
                    => /\ Rotated(users, incomingRefreshToken(q[1], q[2]))
                       /\ guards' = guards
       /\ Answers({"getAccessTokenGuard"}) =>
            \A q \in RefreshRequests :
                (Live(guards, q) /\ getAccessTokenGuard(q[1], q[2]))
                    => /\ Rotated(guards, incomingRefreshToken(q[1], q[2]))
                       /\ users' = users]_vars

\* a refresh replaced the stored token by a different one
C3_Witness ==
    /\ res.op \in RefreshOps
    /\ res.status = 200
    /\ res.refreshToken # res.incoming
    /\ Stored(users, res.id) \cup Stored(guards, res.id) = {res.refreshToken}

(***************************************************************************)
(* C7  Status codes are propagated: a refresh request whose token          *)
(* verifies but is not the one stored on the account, or whose account     *)
(* does not exist, is answered 403; one whose token does not verify, or    *)
(* that carries no token, is answered 401; none of them is sent a token    *)
(* or changes a stored document.                                           *)
(***************************************************************************)
Refused(coll, incoming) ==
    /\ res'.status = IF jwtVerify(incoming) THEN 403 ELSE 401
    /\ NoTokens(res')
    /\ users' = users
    /\ guards' = guards

C7_StatusPropagated ==
    [][/\ Answers({"getAccessTokenUser"}) =>
            \A q \in RefreshRequests :
                (~Live(users, q) /\ getAccessTokenUser(q[1], q[2]))
                    => Refused(users, incomingRefreshToken(q[1], q[2]))
       /\ Answers({"getAccessTokenGuard"}) =>
            \A q \in RefreshRequests :
                (~Live(guards, q) /\ getAccessTokenGuard(q[1], q[2]))
                    => Refused(guards, incomingRefreshToken(q[1], q[2]))]_vars

(***************************************************************************)
(* C8  Logout ends the session: a logout is answered 200, clears both      *)
(* cookies and leaves the account without a stored refresh token, and      *)
(* while an account has been logged out and has not logged in again, no    *)
(* refresh request that presents a refresh token handed out for that       *)
(* account is answered 200.                                                *)
(***************************************************************************)
LoggedOut(coll, id) ==
    /\ res'.status = 200
    /\ res'.cookies = [accessToken |-> Cleared, refreshToken |-> Cleared]
    /\ Stored(coll', id) = {NoToken}

\* the request q presents a token handed out for an account that has
\* logged out since
Stale(q) ==
    LET incoming == incomingRefreshToken(q[1], q[2])
    IN  incoming \in Issued /\ latest[incoming._id] = NoToken

C8_LogoutEndsSession ==
    [][/\ Answers({"logoutUser"}) =>
            \A id \in Ids : logoutUser(id) => LoggedOut(users, id)
       /\ Answers({"logoutGuard"}) =>
            \A id \in Ids : logoutGuard(id) => LoggedOut(guards, id)
       /\ Answers({"getAccessTokenUser"}) =>
            \A q \in RefreshRequests :
                (Stale(q) /\ getAccessTokenUser(q[1], q[2])) => res'.status # 200
       /\ Answers({"getAccessTokenGuard"}) =>
            \A q \in RefreshRequests :
                (Stale(q) /\ getAccessTokenGuard(q[1], q[2])) => res'.status # 200]_vars

\* a refresh token of a logged-out account was presented and refused
C8_Witness ==
    /\ res.op \in RefreshOps
    /\ res.status = 401
    /\ res.incoming \in Issued
    /\ latest[res.incoming._id] = NoToken
    /\ Stored(users, res.incoming._id) \cup Stored(guards, res.incoming._id)
          = {NoToken}

(***************************************************************************)
(* C9  At most one refresh token per account is live: a refresh request    *)
(* is answered 200 only if it presents the refresh token most recently     *)
(* handed out for the account, and never if it presents one handed out     *)
(* before that (by an earlier login or refresh).                           *)
(***************************************************************************)
MostRecent(q) ==
    LET incoming == incomingRefreshToken(q[1], q[2])
    IN  /\ incoming = latest[incoming._id]
        /\ incoming \notin superseded[incoming._id]

C9_OneLiveToken ==
    [][/\ Answers({"getAccessTokenUser"}) =>
            \A q \in RefreshRequests :
                (res'.status = 200 /\ getAccessTokenUser(q[1], q[2]))
                    => MostRecent(q)
       /\ Answers({"getAccessTokenGuard"}) =>
            \A q \in RefreshRequests :
                (res'.status = 200 /\ getAccessTokenGuard(q[1], q[2]))
                    => MostRecent(q)]_vars

(***************************************************************************)
(* C4  Work percent stays in range: every stored workPercent is a number   *)
(* from 0 to 100, and an updateWorkPercent request whose workPercent is    *)
(* missing or is not in that range is answered 400 and changes no guard.   *)
(***************************************************************************)
InRange(v) == v.t = "number" /\ v.n \in 0..100

C4_WorkPercentInRange == \A g \in guards : InRange(g.workPercent)

(***************************************************************************)
(* C6  Approval toggle: authoriseGuard with a complain text and the id of  *)
(* a stored guard is answered 200, leaves that guard with isApproved       *)
(* false and otherwise as it was, changes no other guard and adds one      *)
(* Complain that references the guard; without a complain text it is       *)
(* answered 400, with an id that is no ObjectId or is no guard's 404, and  *)
(* then no guard changes and no Complain is added.                         *)
(***************************************************************************)
Toggled(complain, id) ==
    IF complain /\ findById(guards, id) # {}
    THEN /\ res'.status = 200
         /\ guards' = {IF g._id = id THEN [g EXCEPT !.isApproved = FALSE]
                                     ELSE g : g \in guards}
         /\ complains' = Append(complains, [guard |-> id])
    ELSE /\ res'.status = IF complain THEN 404 ELSE 400
         /\ guards' = guards
         /\ complains' = complains

C6_ApprovalToggle ==
    [][Answers({"authoriseGuard"}) =>
            \A complain \in BOOLEAN, id \in Ids \cup {-1} :
                authoriseGuard(complain, id) => Toggled(complain, id)]_vars

\* a guard was disapproved by a complaint while another guard stayed approved
C6_Witness ==
    /\ res.op = "authoriseGuard"
    /\ res.status = 200
    /\ complains # << >>
    /\ \E g \in guards : g._id = res.id /\ ~g.isApproved
    /\ \E g \in guards : g._id # res.id /\ g.isApproved


(***************************************************************************)
(* C5  Uniqueness holds under concurrency: of two registrations of the     *)
(* same kind in flight whose userNames are equal up to letter case or      *)
(* whose emails are equal, at most one creates an account, however their   *)
(* steps and those of other requests interleave; no two stored users and   *)
(* no two stored guards share a userName or an email.                      *)
(***************************************************************************)
RegisterOps == {"registerUser", "registerGuard"}

\* the bodies r and s name the same account
SameAccount(r, s) ==
    toLowerCase(r.userName) = toLowerCase(s.userName) \/ r.email = s.email

\* neither request was answered before the other arrived
Concurrent(p, q) ==
    p # q /\ p \notin procs[q].after /\ q \notin procs[p].after

C5_ConcurrentUnique ==
    /\ Unique(users)
    /\ Unique(guards)
    /\ \A p, q \in DOMAIN procs :
          (/\ p # q
           /\ procs[p].op \in RegisterOps
           /\ procs[p].op = procs[q].op
           /\ SameAccount(procs[p].r, procs[q].r))
              => procs[p].id = 0 \/ procs[q].id = 0

\* two overlapping registrations of one account both passed findOne; one
\* created the account and the insert of the other was refused
C5_Witness ==
    \E p, q \in DOMAIN procs :
        /\ Concurrent(p, q)
        /\ procs[p].op \in RegisterOps
        /\ procs[p].op = procs[q].op
        /\ SameAccount(procs[p].r, procs[q].r)
        /\ procs[p].status = 201
        /\ procs[q].status = 500
        /\ procs[q].id = 0

(***************************************************************************)
(* C10  A refresh token is accepted at most once under concurrency: of     *)
(* two overlapping refresh requests that present the same refresh token    *)
(* of one account, once both are answered at most one was answered 200,    *)
(* and each one answered 200 was sent the refresh token that is stored on  *)
(* the account.                                                            *)
(***************************************************************************)
\* the refresh tokens stored under id in the collection op refreshes
StoredFor(op, id) ==
    IF op = "getAccessTokenUser" THEN Stored(users, id) ELSE Stored(guards, id)

C10_AcceptedOnce ==
    \A p, q \in DOMAIN procs :
        (/\ Concurrent(p, q)
         /\ procs[p].op \in RefreshOps
         /\ procs[p].op = procs[q].op
         /\ procs[p].incoming = procs[q].incoming
         /\ procs[p].pc = "done"
         /\ procs[q].pc = "done")
            => /\ procs[p].status # 200 \/ procs[q].status # 200
               /\ procs[p].status = 200 =>
                     StoredFor(procs[p].op, procs[p].id) = {procs[p].refreshToken}

(***************************************************************************)
(* C11  Register then login round-trips: right after a registration was    *)
(* answered 201, a login that gives the userName as it was sent to the     *)
(* registration, or the registered email, or both, and the registered      *)
(* password, is answered 200 for the account that was registered.          *)
(***************************************************************************)
\* the login body r gives the userName just registered (as it was sent) or
\* the email of the account d just registered, and the password of d
SameCredentials(r, d) ==
    /\ r.userName \in {res.userName, NoName}
    /\ r.email \in {d.email, NoString}
    /\ r.userName # NoName \/ r.email # NoString
    /\ isPasswordCorrect(d, r.password)

C11_RegisterThenLogin ==
    [][/\ (res.op = "registerUser" /\ res.status = 201
                /\ Answers({"loginUser"})) =>
            \A r \in LoginRequests : \A d \in findById(users, res.id) :
                (SameCredentials(r, d) /\ loginUser(r))
                    => res'.status = 200 /\ res'.id = d._id
       /\ (res.op = "registerGuard" /\ res.status = 201
                /\ Answers({"loginGuard"})) =>
            \A r \in LoginRequests : \A d \in findById(guards, res.id) :
                (SameCredentials(r, d) /\ loginGuard(r))
                    => res'.status = 200 /\ res'.id = d._id]_vars

(***************************************************************************)
(* C12  User and guard sessions are separate: a refresh request to the     *)
(* user endpoint that presents a refresh token handed out to a guard is    *)
(* never answered 200, and neither is one to the guard endpoint that       *)
(* presents a refresh token handed out to a user.                          *)
(***************************************************************************)
\* the request q presents a refresh token handed out to an account of coll
IssuedTo(coll, q) ==
    LET incoming == incomingRefreshToken(q[1], q[2])
    IN  incoming \in Issued /\ findById(coll, incoming._id) # {}

C12_SessionsSeparate ==
    [][/\ Answers({"getAccessTokenUser"}) =>
            \A q \in RefreshRequests :
                (IssuedTo(guards, q) /\ getAccessTokenUser(q[1], q[2]))
                    => res'.status # 200
       /\ Answers({"getAccessTokenGuard"}) =>
            \A q \in RefreshRequests :
                (IssuedTo(users, q) /\ getAccessTokenGuard(q[1], q[2]))
                    => res'.status # 200]_vars

\* the user endpoint refused the refresh token stored on a guard
C12_Witness ==
    /\ res.op = "getAccessTokenUser"
    /\ res.status = 401
    /\ \E g \in guards : g.refreshToken = res.incoming /\ g._id = res.incoming._id

(***************************************************************************)
(* C13  Stored credentials are never sent back: no document in the body    *)
(* of a success response has a password field, and none has a              *)
(* refreshToken field that holds a stored refresh token.                   *)
(***************************************************************************)
\* the account documents in the body of the response, those embedded as
\* guardDetails included
Documents(response) ==
    response.data \cup
        {d.guardDetails : d \in {e \in response.data : "guardDetails" \in DOMAIN e}}

NoCredentials(d) ==
    /\ "password" \notin DOMAIN d
    /\ "refreshToken" \in DOMAIN d => d.refreshToken = NoToken

C13_NoCredentialsSent ==
    res.status \in {200, 201} => \A d \in Documents(res) : NoCredentials(d)

(***************************************************************************)
(* C14  A rejected guard registration has no effect: a registerGuard       *)
(* request that is not answered 201 stores no guard and has put no avatar  *)
(* on the media host; one that is answered 201 and carries no workHistory  *)
(* stores the guard with an empty workHistory.                             *)
(***************************************************************************)
\* the avatar of the request r is on the media host: uploadOnCloudinary
\* was called and did not fail
AvatarOnHost(r) == res'.uploaded /\ r.avatar = "uploaded"

C14_RejectedHasNoEffect ==
    [][Answers({"registerGuard"}) =>
            \A r \in GuardRequests :
                registerGuard(r) =>
                    IF res'.status = 201
                    THEN r.workHistory = NoString =>
                            \E g \in guards' \ guards : g.workHistory = << >>
                    ELSE guards' = guards /\ ~AvatarOnHost(r)]_vars

(***************************************************************************)
(* C15  Appreciation does not touch the guard: appreciateGuard from a      *)
(* stored user with a message and the id of a stored guard is answered     *)
(* 200 and adds one Appreciation that references the guard; without a      *)
(* message or from an account that is no stored user it is answered 400,   *)
(* with an ObjectId that is no guard's 404, and then no Appreciation is    *)
(* added.  In every case no user, guard or Complain changes.               *)
(***************************************************************************)
Appreciated(user, message, guardId) ==
    /\ users' = users
    /\ guards' = guards
    /\ complains' = complains
    /\ IF message /\ findById(users, user) # {} /\ findById(guards, guardId) # {}
       THEN /\ res'.status = 200
            /\ appreciations' = Append(appreciations, [guard |-> guardId])
       ELSE /\ appreciations' = appreciations
            /\ res'.status # 200
            /\ (user # 0 /\ (~message \/ findById(users, user) = {}))
                  => res'.status = 400
            /\ (message /\ findById(users, user) # {} /\ guardId \in SomeIds(guards))
                  => res'.status = 404

C15_AppreciationFrame ==
    [][Answers({"appreciateGuard"}) =>
          \A user \in SomeIds(users) \cup {0}, message \in BOOLEAN,
             id \in SomeIds(guards) \cup {0, -1} :
              appreciateGuard(user, message, id) => Appreciated(user, message, id)]_vars

\* an approved guard was appreciated and is still approved
C15_Witness ==
    /\ res.op = "appreciateGuard"
    /\ res.status = 200
    /\ appreciations # << >>
    /\ \E g \in guards : g._id = res.id /\ g.isApproved

(***************************************************************************)
(* C16  listUnassignedGuards answers with exactly the guards, approved or  *)
(* not, that no Location references, and answers 404 exactly when there    *)
(* is no such guard.                                                       *)
(***************************************************************************)
Unassigned == {g \in guards : \A l \in locations : l.guard # g._id}

\* the _ids of the documents in the body of the response
DataIds(response) == {d._id : d \in response.data}

C16_UnassignedListed ==
    [][(Answers({"listUnassignedGuards"}) /\ listUnassignedGuards) =>
          /\ res'.status = IF Unassigned = {} THEN 404 ELSE 200
          /\ DataIds(res') = {g._id : g \in Unassigned}]_vars

\* the list left out a guard that has a Location and held one that is not
\* approved
C16_Witness ==
    /\ res.op = "listUnassignedGuards"
    /\ res.status = 200
    /\ \E g \in guards : g._id \notin DataIds(res)
    /\ \E g \in guards : g._id \in DataIds(res) /\ ~g.isApproved

(***************************************************************************)
(* C17  Approved-guard lists follow the approval flag:                     *)
(* listAutherisedGuards answers with exactly the guards whose isApproved   *)
(* is true, listAuthorisedGuards with exactly one entry for each Location  *)
(* whose guard is stored and approved, each 404 exactly when it has        *)
(* nothing to list; right after authoriseGuard was answered 200 for a      *)
(* guard, that guard is in neither list.                                   *)
(***************************************************************************)
Approved == {g \in guards : g.isApproved}

C17_ApprovedListed ==
    [][/\ (Answers({"listAutherisedGuards"}) /\ listAutherisedGuards) =>
            /\ res'.status = IF Approved = {} THEN 404 ELSE 200
            /\ DataIds(res') = {g._id : g \in Approved}
            /\ (res.op = "authoriseGuard" /\ res.status = 200)
                  => res.id \notin DataIds(res')
       /\ (Answers({"listAuthorisedGuards"}) /\ listAuthorisedGuards) =>
            /\ DataIds(res') =
                  {l._id : l \in {k \in locations :
                                    \E g \in Approved : g._id = k.guard}}
            /\ res'.status = IF DataIds(res') = {} THEN 404 ELSE 200
            /\ \A d \in res'.data :
                  d.guardDetails._id = d.guard /\ d.guardDetails.isApproved
            /\ (res.op = "authoriseGuard" /\ res.status = 200)
                  => \A d \in res'.data : d.guard # res.id]_vars

\* a guard that has a Location is not approved, a complaint has been made,
\* and listAuthorisedGuards had nothing to list
C17_Witness ==
    /\ res.op = "listAuthorisedGuards"
    /\ res.status = 404
    /\ complains # << >>
    /\ \E l \in locations : \E g \in guards : g._id = l.guard /\ ~g.isApproved
====
